---- MODULE Spec2Model ----
(***************************************************************************)
(* A model of evsieve's hold trackers (hook.rs), hooks (hook.rs) and the   *)
(* --withhold buffer (withhold.rs) over the event vocabulary of event.rs.  *)
(***************************************************************************)
EXTENDS Integers, Sequences, FiniteSets, TLC

(***************************************************************************)
(* Bounds of the model.                                                    *)
(***************************************************************************)
\* Number of events fed to the single tracker of SpecTracker.
MaxFeed == 4
\* Number of events given to Hook.apply_to_all in SpecHook.
MaxHookEvents == 4
\* Number of events given to Withhold.apply in Spec.
MaxEvents == 4

(***************************************************************************)
(* Event vocabulary (event.rs).                                            *)
(***************************************************************************)
\* EventValue = i32: the largest value, used for a range without upper end.
I32Max == 2147483647

\* The values of key events: 0 = release, 1 = press, 2 = repeat.
Values == {0, 1, 2}

Domains == {"d1", "d2"}

\* An event.  seq identifies the event instance (its arrival number); no
\* operation of the program reads it.
Event(code, value, domain, withholdable, seq) ==
    [code |-> code, value |-> value, domain |-> domain,
     withholdable |-> withholdable, seq |-> seq]

\* A channel that leaves the domain out: every event of a code falls on the
\* channel of the first domain.
ChannelCodeOnly(event) == <<event.code, "d1">>

\* Event::channel: the pair (code, domain).
Channel(event) == <<event.code, event.domain>>

(***************************************************************************)
(* Key and Range: the matching collaborators.                              *)
(***************************************************************************)
Range(min, max) == [min |-> min, max |-> max]

RangeContains(range, value) == range.min <= value /\ value <= range.max

\* A key: a code pattern, a domain pattern ("*" matches all) and an optional
\* value range (has_value).
Key(code, domain) ==
    [code |-> code, domain |-> domain, has_value |-> FALSE, value |-> Range(0, 0)]

KeyWithValue(code, domain, range) ==
    [code |-> code, domain |-> domain, has_value |-> TRUE, value |-> range]

KeyMatchesChannel(key, channel) ==
    /\ key.code \in {"*", channel[1]}
    /\ key.domain \in {"*", channel[2]}

KeyMatches(key, event) ==
    /\ KeyMatchesChannel(key, Channel(event))
    /\ key.has_value => RangeContains(key.value, event.value)

(***************************************************************************)
(* Tracker (hook.rs).                                                      *)
(***************************************************************************)
\* Tracker::new: the key's value range is detached; the default is "1 or more".
TrackerNew(key) ==
    [key   |-> Key(key.code, key.domain),
     range |-> IF key.has_value THEN key.value ELSE Range(1, I32Max),
     state |-> FALSE]

\* Tracker::apply storing the range test without testing the key first.
TrackerApplyStateUnguarded(tracker, event) ==
    RangeContains(tracker.range, event.value)

\* The state Tracker::apply stores.
TrackerApplyState(tracker, event) ==
    IF KeyMatches(tracker.key, event)
    THEN RangeContains(tracker.range, event.value)
    ELSE tracker.state

\* Tracker::apply answering new_value, without "&& ! previous_value".
TrackerApplyResultLevel(tracker, event) ==
    KeyMatches(tracker.key, event) /\ RangeContains(tracker.range, event.value)

\* The value Tracker::apply returns.
TrackerApplyResult(tracker, event) ==
    IF KeyMatches(tracker.key, event)
    THEN RangeContains(tracker.range, event.value) /\ ~tracker.state
    ELSE FALSE

\* Tracker::is_down.
TrackerIsDown(tracker) == tracker.state

(***************************************************************************)
(* Trigger and TriggerResponse: the withhold-facing view of a hook's       *)
(* trackers, with its timer on the loopback.                               *)
(***************************************************************************)
\* No timer armed.
NoToken == <<0, 0>>

TriggerNew(hold_keys) ==
    [trackers |-> [i \in 1..Len(hold_keys) |-> TrackerNew(hold_keys[i])],
     token    |-> NoToken]

\* The trackers after the event was fed to every one of them.
TriggerTrackersAfter(trigger, event) ==
    [i \in 1..Len(trigger.trackers) |->
        [trigger.trackers[i] EXCEPT
            !.state = TrackerApplyState(trigger.trackers[i], event)]]

\* Trigger::apply, the response: None, Matches, Releases or Activates.
TriggerResponse(trigger, event) ==
    LET n       == Len(trigger.trackers)
        after   == TriggerTrackersAfter(trigger, event)
        matched == \E i \in 1..n : KeyMatches(trigger.trackers[i].key, event)
        rising  == \E i \in 1..n : TrackerApplyResult(trigger.trackers[i], event)
        undone  == \E i \in 1..n : trigger.trackers[i].state /\ ~after[i].state
    IN  IF ~matched THEN "None"
        ELSE IF rising /\ \A i \in 1..n : after[i].state THEN "Activates"
        ELSE IF undone THEN "Releases"
        ELSE "Matches"

\* Whether Trigger::apply arms a timer on the loopback: a tracker went down,
\* the activation is not complete and no timer of this trigger is running.
TriggerArms(trigger, event) ==
    /\ \E i \in 1..Len(trigger.trackers) :
          TrackerApplyResult(trigger.trackers[i], event)
    /\ TriggerResponse(trigger, event) # "Activates"
    /\ trigger.token = NoToken

\* Trigger::apply, the trigger it leaves; token is the one the loopback hands
\* out if a timer is armed.
TriggerApply(trigger, event, token) ==
    [trackers |-> TriggerTrackersAfter(trigger, event),
     token    |-> IF TriggerResponse(trigger, event) = "Activates" THEN NoToken
                  ELSE IF TriggerArms(trigger, event) THEN token
                  ELSE trigger.token]

\* Trigger::wakeup, the result: the token is this trigger's running timer, so
\* its activation window ends without a full activation.
TriggerWakeupExpires(trigger, token) == trigger.token = token

\* Trigger::wakeup, the trigger it leaves: an expired window holds no tracker.
TriggerWakeup(trigger, token) ==
    IF TriggerWakeupExpires(trigger, token)
    THEN [trackers |-> [i \in 1..Len(trigger.trackers) |->
                          [trigger.trackers[i] EXCEPT !.state = FALSE]],
          token    |-> NoToken]
    ELSE trigger

TriggerHasTrackerMatchingChannel(trigger, channel) ==
    \E i \in 1..Len(trigger.trackers) :
        KeyMatchesChannel(trigger.trackers[i].key, channel)

TriggerHasActiveTrackerMatchingChannel(trigger, channel) ==
    \E i \in 1..Len(trigger.trackers) :
        /\ KeyMatchesChannel(trigger.trackers[i].key, channel)
        /\ TrackerIsDown(trigger.trackers[i])

(***************************************************************************)
(* Withhold (withhold.rs).                                                 *)
(***************************************************************************)
NoEvent == Event("none", 0, "none", FALSE, 0)

\* ChannelState::Withheld { withheld_event } and ChannelState::Residual, with
\* the channel they are stored under.
Withheld(channel, event) ==
    [channel |-> channel, state |-> "Withheld", withheld_event |-> event]

Residual(channel) ==
    [channel |-> channel, state |-> "Residual", withheld_event |-> NoEvent]

\* The event as it came, its Withholdable flag left as it was.
KeepWithholdable(event) == event

\* The event with its Withholdable flag unset.
UnsetWithholdable(event) == [event EXCEPT !.withholdable = FALSE]

\* self.keys.iter().any(|key| key.matches(&event))
WithholdKeysMatch(keys, event) ==
    \E i \in 1..Len(keys) : KeyMatches(keys[i], event)

\* The index of the first entry of the channel, 0 if there is none.
FindChannel(states, channel) ==
    LET found == {i \in 1..Len(states) : states[i].channel = channel}
    IN  IF found = {} THEN 0
        ELSE CHOOSE i \in found : \A j \in found : i <= j

\* current_channel_state: "None", "Withheld" or "Residual".
CurrentChannelState(states, channel) ==
    IF FindChannel(states, channel) = 0 THEN "None"
    ELSE states[FindChannel(states, channel)].state

\* A retain that keeps every entry.
RemoveChannelKeepsAll(states, channel) == states

\* channel_state.retain(|(channel, _)| *channel != event.channel())
RemoveChannel(states, channel) ==
    LET Keep(entry) == entry.channel # channel
    IN  SelectSeq(states, Keep)

\* The event's own branch with a press that re-parks over a Withheld state.
OwnStatesRepark(states, keys, event) ==
    LET channel == Channel(event)
        current == CurrentChannelState(states, channel)
    IN  IF ~WithholdKeysMatch(keys, event) THEN states
        ELSE IF event.value = 1 THEN
            IF current = "None" THEN Append(states, Withheld(channel, event))
            ELSE [states EXCEPT ![FindChannel(states, channel)] =
                    Withheld(channel, event)]
        ELSE IF event.value = 0 /\ current = "Residual"
        THEN RemoveChannel(states, channel)
        ELSE states

\* The event's own branch with a release that leaves a Residual state behind.
OwnStatesKeepResidual(states, keys, event) ==
    LET channel == Channel(event)
        current == CurrentChannelState(states, channel)
    IN  IF WithholdKeysMatch(keys, event) /\ event.value = 1
        THEN CASE current = "None" -> Append(states, Withheld(channel, event))
               [] current = "Residual" ->
                     [states EXCEPT ![FindChannel(states, channel)] =
                         Withheld(channel, event)]
               [] current = "Withheld" -> states
        ELSE states

\* The event's own branch with a press that pushes a new Withheld entry next
\* to a Residual one instead of overwriting it.
OwnStatesAppends(states, keys, event) ==
    LET channel == Channel(event)
        current == CurrentChannelState(states, channel)
    IN  IF ~WithholdKeysMatch(keys, event) THEN states
        ELSE IF event.value = 1 THEN
            IF current = "Withheld" THEN states
            ELSE Append(states, Withheld(channel, event))
        ELSE IF event.value = 0 /\ current = "Residual"
        THEN RemoveChannel(states, channel)
        ELSE states

\* The channel states after the event's own branch (press, release, other).
OwnStates(states, keys, event) ==
    LET channel == Channel(event)
        current == CurrentChannelState(states, channel)
    IN  IF ~WithholdKeysMatch(keys, event) THEN states
        ELSE IF event.value = 1 THEN
            CASE current = "None" -> Append(states, Withheld(channel, event))
              [] current = "Residual" ->
                    [states EXCEPT ![FindChannel(states, channel)] =
                        Withheld(channel, event)]
              [] current = "Withheld" -> states
        ELSE IF event.value = 0 THEN
            IF current = "Residual" THEN RemoveChannel(states, channel)
            ELSE states
        ELSE states

\* final_event with a release that passes whatever the channel state is.
FinalEventPassResidual(states, keys, event) ==
    IF ~WithholdKeysMatch(keys, event) THEN <<event>>
    ELSE IF event.value = 0 THEN <<event>>
    ELSE <<>>

\* final_event with the last arm passing the event on instead of dropping it.
FinalEventPassOther(states, keys, event) ==
    IF ~WithholdKeysMatch(keys, event) THEN <<event>>
    ELSE IF event.value = 1 THEN <<>>
    ELSE IF event.value = 0 /\ CurrentChannelState(states, Channel(event)) = "Residual"
    THEN <<>>
    ELSE <<event>>

\* final_event: <<event>> for Some(event), <<>> for None.
FinalEvent(states, keys, event) ==
    IF ~WithholdKeysMatch(keys, event) THEN <<event>>
    ELSE IF event.value = 1 THEN <<>>
    ELSE IF event.value = 0 THEN
        IF CurrentChannelState(states, Channel(event)) = "Residual"
        THEN <<>> ELSE <<event>>
    ELSE <<>>

\* apply without the loop that turns claimed states Residual.
ClaimStatesNone(states, triggers_now, activated) == states

\* Every Withheld state whose channel a just-activated trigger has a tracker
\* for becomes Residual.
ClaimStates(states, triggers_now, activated) ==
    [k \in 1..Len(states) |->
        IF /\ states[k].state = "Withheld"
           /\ \E i \in activated :
                 TriggerHasTrackerMatchingChannel(triggers_now[i], states[k].channel)
        THEN Residual(states[k].channel)
        ELSE states[k]]

\* release_events asking has_tracker_matching_channel instead of
\* has_active_tracker_matching_channel.
StillWithheldStatic(entry, triggers_now) ==
    \/ entry.state # "Withheld"
    \/ \E i \in 1..Len(triggers_now) :
          TriggerHasTrackerMatchingChannel(triggers_now[i], entry.channel)

\* release_events: whether an entry is kept by the retain.
StillWithheld(entry, triggers_now) ==
    \/ entry.state # "Withheld"
    \/ \E i \in 1..Len(triggers_now) :
          TriggerHasActiveTrackerMatchingChannel(triggers_now[i], entry.channel)

\* release_events with a retain that keeps every entry, the pushed ones too.
ReleaseKeptAll(states, triggers_now) == states

\* release_events: the entries left in channel_state.
ReleaseKept(states, triggers_now) ==
    LET Keep(entry) == StillWithheld(entry, triggers_now)
    IN  SelectSeq(states, Keep)

\* release_events: the events pushed to events_out, in the order of the scan.
ReleaseEmitted(states, triggers_now) ==
    LET Gone(entry) == ~StillWithheld(entry, triggers_now)
        gone == SelectSeq(states, Gone)
    IN  [k \in 1..Len(gone) |-> gone[k].withheld_event]

\* The final event pushed before release_events runs.
ApplyOutputFinalFirst(released, final_event) == final_event \o released

\* What one Withhold::apply pushes to events_out: the released events, then
\* the final event.
ApplyOutput(released, final_event) == released \o final_event

VARIABLES
    \* SpecTracker: one tracker, the events fed to it, and its answers.
    tracker, fed, results, probed,
    \* SpecHook: a hook's trackers, the number of times its effects ran, and
    \* the events Hook::apply_to_all has applied so far.
    hold_trackers, effects_run, hook_events,
    \* Spec: a Withhold (keys, triggers, channel_state), the events the last
    \* call pushed to events_out, the timers armed on the loopback, the last
    \* call and the number of events applied.
    keys, triggers, channel_state, events_out, loopback, call, count,
    \* Spec, history: the arrival numbers of the events pushed to events_out
    \* so far, those of the presses whose state went from Withheld to
    \* Residual, and per channel the last press, the last parked press and what
    \* became of the first release after the last press.
    emitted, claimed, pairing

trackerVars == <<tracker, fed, results, probed>>
hookVars == <<hold_trackers, effects_run, hook_events>>
withholdVars == <<keys, triggers, channel_state, events_out, loopback, call,
                  count, emitted, claimed, pairing>>
vars == <<trackerVars, hookVars, withholdVars>>

(***************************************************************************)
(* Inputs.                                                                 *)
(***************************************************************************)
HookCodes == {"A", "B"}

\* The events given to a tracker or a hook; seq is their arrival number.
HookEvents(seq) ==
    {Event(code, value, "d1", FALSE, seq) : code \in HookCodes, value \in Values}

\* The keys a tracker is built from: key:a, key:a:1, key:a:0, key:a:2.
TrackerKeys ==
    {Key("A", "*"),
     KeyWithValue("A", "*", Range(1, 1)),
     KeyWithValue("A", "*", Range(0, 0)),
     KeyWithValue("A", "*", Range(2, I32Max))}

\* The hold-key lists a hook is built from.
HookKeyLists ==
    {<<Key("A", "*"), Key("B", "*")>>,
     <<Key("A", "*"), Key("A", "*")>>,
     <<KeyWithValue("A", "*", Range(1, 1)), KeyWithValue("A", "*", Range(2, 2))>>,
     <<Key("A", "*"), Key("*", "*")>>,
     <<Key("B", "*")>>}

(***************************************************************************)
(* SpecTracker: one Tracker, fed events one at a time.                     *)
(***************************************************************************)
InitTracker ==
    /\ tracker \in {TrackerNew(key) : key \in TrackerKeys}
    /\ fed = <<>>
    /\ results = <<>>
    /\ probed = [op |-> "new", is_down |-> FALSE]

\* tracker.apply(event)
TrackerApply(event) ==
    /\ Len(fed) < MaxFeed
    /\ tracker' = [tracker EXCEPT !.state = TrackerApplyState(tracker, event)]
    /\ results' = Append(results, TrackerApplyResult(tracker, event))
    /\ fed' = Append(fed, event)
    /\ probed' = [op |-> "apply", is_down |-> probed.is_down]
    /\ UNCHANGED <<hookVars, withholdVars>>

\* tracker.is_down()
TrackerProbe ==
    /\ probed' = [op |-> "is_down", is_down |-> TrackerIsDown(tracker)]
    /\ UNCHANGED <<tracker, fed, results>>
    /\ UNCHANGED <<hookVars, withholdVars>>

NextTracker ==
    \/ \E event \in HookEvents(Len(fed) + 1) : TrackerApply(event)
    \/ TrackerProbe

(***************************************************************************)
(* Hook (hook.rs).                                                         *)
(***************************************************************************)
\* Hook::new
HookNew(hold_keys) == [i \in 1..Len(hold_keys) |-> TrackerNew(hold_keys[i])]

\* The trackers that `hold_trackers.iter().any(|tracker| tracker.apply(event))`
\* reaches: any() stops at the first tracker whose apply returns true.
TrackersReached(trackers, event) ==
    {i \in 1..Len(trackers) :
        \A j \in 1..(i - 1) : ~TrackerApplyResult(trackers[j], event)}

\* The value of any_tracker_activated.
AnyTrackerActivated(trackers, event) ==
    \E i \in 1..Len(trackers) : TrackerApplyResult(trackers[i], event)

\* The trackers after the any() of Hook::apply.
HookApplyTrackers(trackers, event) ==
    [i \in 1..Len(trackers) |->
        IF i \in TrackersReached(trackers, event)
        THEN [trackers[i] EXCEPT !.state = TrackerApplyState(trackers[i], event)]
        ELSE trackers[i]]

\* Whether Hook::apply reaches apply_effects.
HookFires(trackers, event) ==
    /\ AnyTrackerActivated(trackers, event)
    /\ \A i \in 1..Len(trackers) :
          TrackerIsDown(HookApplyTrackers(trackers, event)[i])

InitHook ==
    /\ hold_trackers \in {HookNew(hold_keys) : hold_keys \in HookKeyLists}
    /\ effects_run = 0
    /\ hook_events = <<>>

\* hook.apply(event, state): one iteration of Hook::apply_to_all.
HookApply(event) ==
    /\ Len(hook_events) < MaxHookEvents
    /\ hold_trackers' = HookApplyTrackers(hold_trackers, event)
    /\ effects_run' = IF HookFires(hold_trackers, event)
                      THEN effects_run + 1 ELSE effects_run
    /\ hook_events' = Append(hook_events, event)
    /\ UNCHANGED <<trackerVars, withholdVars>>

NextHook == \E event \in HookEvents(Len(hook_events) + 1) : HookApply(event)


(***************************************************************************)
(* Spec: one Withhold, given events and timer wakeups one at a time.       *)
(***************************************************************************)
\* The channels of the events given to the Withhold.
Channels == {<<"C", "d1">>, <<"C", "d2">>, <<"D", "d1">>}

\* The events given to Withhold::apply; seq is their arrival number.
WithholdEvents(seq) ==
    {Event(channel[1], value, channel[2], withholdable, seq) :
        channel \in Channels, value \in Values, withholdable \in BOOLEAN}

\* The configurations: the withhold keys (without values) and the hold keys of
\* each trigger.
WithholdConfigs ==
    {[keys |-> <<Key("C", "*")>>,
      hold_keys |-> << <<Key("C", "*"), Key("D", "*")>> >>],
     [keys |-> <<Key("C", "*"), Key("D", "*")>>,
      hold_keys |-> << <<Key("C", "d1"), Key("D", "*")>>, <<Key("C", "*")>> >>],
     [keys |-> <<Key("C", "d1")>>,
      hold_keys |-> << <<Key("C", "*"), Key("D", "*")>>,
                       <<KeyWithValue("C", "*", Range(0, 0)), Key("D", "*")>> >>]}

NoPairing == [press |-> 0, parked |-> 0, release |-> "none"]

InitWithhold ==
    /\ \E config \in WithholdConfigs :
          /\ keys = config.keys
          /\ triggers = [i \in 1..Len(config.hold_keys) |->
                            TriggerNew(config.hold_keys[i])]
    /\ channel_state = <<>>
    /\ events_out = <<>>
    /\ loopback = {}
    /\ call = [op |-> "new", event |-> NoEvent, current |-> "None",
               final_event |-> <<>>, activated |-> {}, expired |-> FALSE]
    /\ count = 0
    /\ emitted = {}
    /\ claimed = {}
    /\ pairing = [channel \in Channels |-> NoPairing]

\* The arrival numbers of the events of a sequence.
Seqs(events) == {events[k].seq : k \in 1..Len(events)}

\* The history of the event's channel after Withhold::apply inspected it.
PairingAfter(old, event, current, final_event) ==
    IF event.value = 1
    THEN [press   |-> event.seq,
          parked  |-> IF current = "Withheld" THEN old.parked ELSE event.seq,
          release |-> "none"]
    ELSE IF event.value = 0 /\ old.release = "none"
    THEN [old EXCEPT !.release =
            IF final_event = <<>> THEN "absorbed" ELSE "emitted"]
    ELSE old

\* Withhold::apply from the point where the flag has been found set: the
\* triggers are fed, the event's own branch runs, activated triggers claim,
\* the release scan runs and the final event is pushed.
WithholdInspect(event) ==
    /\ count < MaxEvents
    /\ LET ev           == UnsetWithholdable(event)
           all          == 1..Len(triggers)
           triggers_now == [i \in all |->
                              TriggerApply(triggers[i], ev, <<ev.seq, i>>)]
           activated    == {i \in all :
                              TriggerResponse(triggers[i], ev) = "Activates"}
           current      == CurrentChannelState(channel_state, Channel(ev))
           final_event  == FinalEvent(channel_state, keys, ev)
           own          == OwnStates(channel_state, keys, ev)
           after_claim  == ClaimStates(own, triggers_now, activated)
           released     == ReleaseEmitted(after_claim, triggers_now)
       IN  /\ triggers' = triggers_now
           /\ loopback' = loopback \cup
                 {<<ev.seq, i>> : i \in {j \in all : TriggerArms(triggers[j], ev)}}
           /\ channel_state' = ReleaseKept(after_claim, triggers_now)
           /\ events_out' = ApplyOutput(released, final_event)
           /\ call' = [op |-> "apply", event |-> event, current |-> current,
                       final_event |-> final_event, activated |-> activated,
                       expired |-> FALSE]
           /\ emitted' = emitted \cup Seqs(ApplyOutput(released, final_event))
           /\ claimed' = claimed \cup
                 {own[k].withheld_event.seq : k \in
                    {j \in 1..Len(own) : /\ own[j].state = "Withheld"
                                         /\ after_claim[j].state = "Residual"}}
           /\ pairing' =
                 IF WithholdKeysMatch(keys, ev)
                 THEN [pairing EXCEPT ![Channel(ev)] =
                         PairingAfter(pairing[Channel(ev)], ev, current, final_event)]
                 ELSE pairing
    /\ count' = count + 1
    /\ UNCHANGED keys
    /\ UNCHANGED <<trackerVars, hookVars>>

\* Withhold::apply without the test of the flag: an event whose flag is unset
\* is inspected like any other.
WithholdPassInspected(event) ==
    /\ ~event.withholdable
    /\ WithholdInspect(event)

\* withhold.apply(event, events_out, loopback) on an event whose Withholdable
\* flag is unset.
WithholdPass(event) ==
    /\ count < MaxEvents
    /\ ~event.withholdable
    /\ events_out' = <<event>>
    /\ call' = [op |-> "apply", event |-> event, current |-> "None",
                final_event |-> <<event>>, activated |-> {}, expired |-> FALSE]
    /\ count' = count + 1
    /\ emitted' = emitted \cup {event.seq}
    /\ UNCHANGED <<keys, triggers, channel_state, loopback, claimed, pairing>>
    /\ UNCHANGED <<trackerVars, hookVars>>

\* withhold.apply(event, events_out, loopback) on an event whose Withholdable
\* flag is set.
WithholdApply(event) ==
    /\ event.withholdable
    /\ WithholdInspect(event)

\* Withhold::wakeup that forwards the token to the triggers and returns
\* without running release_events.
WithholdWakeupNoScan(token) ==
    /\ token \in loopback
    /\ triggers' = [i \in 1..Len(triggers) |-> TriggerWakeup(triggers[i], token)]
    /\ events_out' = <<>>
    /\ call' = [op |-> "wakeup", event |-> NoEvent, current |-> "None",
                final_event |-> <<>>, activated |-> {},
                expired |-> \E i \in 1..Len(triggers) :
                              TriggerWakeupExpires(triggers[i], token)]
    /\ loopback' = loopback \ {token}
    /\ UNCHANGED <<keys, channel_state, count, emitted, claimed, pairing>>
    /\ UNCHANGED <<trackerVars, hookVars>>

\* Withhold::wakeup that, when a trigger expired, clears channel_state after
\* the release scan instead of keeping what the scan kept.
WithholdWakeupClears(token) ==
    /\ token \in loopback
    /\ LET all          == 1..Len(triggers)
           triggers_now == [i \in all |-> TriggerWakeup(triggers[i], token)]
           expired      == \E i \in all : TriggerWakeupExpires(triggers[i], token)
       IN  /\ triggers' = triggers_now
           /\ channel_state' = IF expired THEN <<>> ELSE channel_state
           /\ events_out' = IF expired
                            THEN ReleaseEmitted(channel_state, triggers_now)
                            ELSE <<>>
           /\ emitted' = IF expired
                         THEN emitted \cup
                              Seqs(ReleaseEmitted(channel_state, triggers_now))
                         ELSE emitted
           /\ call' = [op |-> "wakeup", event |-> NoEvent, current |-> "None",
                       final_event |-> <<>>, activated |-> {},
                       expired |-> expired]
    /\ loopback' = loopback \ {token}
    /\ UNCHANGED <<keys, count, claimed, pairing>>
    /\ UNCHANGED <<trackerVars, hookVars>>

\* withhold.wakeup(token, events_out): the loopback delivers an armed timer.
WithholdWakeup(token) ==
    /\ token \in loopback
    /\ LET all          == 1..Len(triggers)
           triggers_now == [i \in all |-> TriggerWakeup(triggers[i], token)]
           expired      == \E i \in all : TriggerWakeupExpires(triggers[i], token)
       IN  /\ triggers' = triggers_now
           /\ channel_state' = IF expired
                               THEN ReleaseKept(channel_state, triggers_now)
                               ELSE channel_state
           /\ events_out' = IF expired
                            THEN ReleaseEmitted(channel_state, triggers_now)
                            ELSE <<>>
           /\ emitted' = IF expired
                         THEN emitted \cup
                              Seqs(ReleaseEmitted(channel_state, triggers_now))
                         ELSE emitted
           /\ call' = [op |-> "wakeup", event |-> NoEvent, current |-> "None",
                       final_event |-> <<>>, activated |-> {},
                       expired |-> expired]
    /\ loopback' = loopback \ {token}
    /\ UNCHANGED <<keys, count, claimed, pairing>>
    /\ UNCHANGED <<trackerVars, hookVars>>

Next ==
    \/ \E event \in WithholdEvents(count + 1) : WithholdPass(event)
    \/ \E event \in WithholdEvents(count + 1) : WithholdApply(event)
    \/ \E token \in loopback : WithholdWakeup(token)

(***************************************************************************)
(* Properties of Tracker, checked under SpecTracker.                       *)
(***************************************************************************)
\* The events of a sequence that match the tracker's key.
MatchingEvents(events) ==
    LET Matches(event) == KeyMatches(tracker.key, event)
    IN  SelectSeq(events, Matches)

\* Whether the last matching event of a sequence has a value in the range.
HeldAfter(events) ==
    LET matching == MatchingEvents(events)
    IN  /\ matching # <<>>
        /\ RangeContains(tracker.range, matching[Len(matching)].value)

\* The number of maximal runs of in-range values among the matching events.
InRangeRuns(events) ==
    LET matching == MatchingEvents(events)
    IN  Cardinality({i \in 1..Len(matching) :
            /\ RangeContains(tracker.range, matching[i].value)
            /\ i = 1 \/ ~RangeContains(tracker.range, matching[i - 1].value)})

\* C6: a tracker starts not-held; apply answers true exactly for a matching
\* event whose value is in range while the tracker was not held; the number of
\* true answers is the number of maximal in-range runs of the matching events;
\* is_down is whether the last matching event was in range.
C6_TrackerEdge ==
    /\ Len(results) = Len(fed)
    /\ \A i \in 1..Len(fed) :
          results[i] = (/\ KeyMatches(tracker.key, fed[i])
                        /\ RangeContains(tracker.range, fed[i].value)
                        /\ ~HeldAfter(SubSeq(fed, 1, i - 1)))
    /\ Cardinality({i \in 1..Len(results) : results[i]}) = InRangeRuns(fed)
    /\ TrackerIsDown(tracker) = HeldAfter(fed)

\* Two runs have been counted and a "still held" event answered false.
C6_Witness ==
    /\ Cardinality({i \in 1..Len(results) : results[i]}) = 2
    /\ \E i \in 1..Len(fed) :
          /\ KeyMatches(tracker.key, fed[i])
          /\ RangeContains(tracker.range, fed[i].value)
          /\ ~results[i]

\* C7: apply on an event that does not match the key answers false and leaves
\* the tracker as it was; is_down leaves the tracker as it was.
C7_TrackerFrame ==
    [][/\ (/\ Len(fed') = Len(fed) + 1
           /\ ~KeyMatches(tracker.key, fed'[Len(fed')]))
          => (tracker' = tracker /\ ~results'[Len(results')])
       /\ probed'.op = "is_down"
          => (tracker' = tracker /\ probed'.is_down = tracker.state)]_vars

\* A held tracker was just given a release of another key.
C7_Witness ==
    /\ probed.op = "apply"
    /\ fed[Len(fed)].code = "B"
    /\ fed[Len(fed)].value = 0
    /\ tracker.state
    /\ tracker.range = Range(1, I32Max)

(***************************************************************************)
(* Properties of Hook, checked under SpecHook.                             *)
(***************************************************************************)
\* Whether hold key i is held after a sequence of events: the last event that
\* matches the key has a value in the tracker's range.
KeyHeldAfter(i, events) ==
    LET Matches(event) == KeyMatches(hold_trackers[i].key, event)
        matching == SelectSeq(events, Matches)
    IN  /\ matching # <<>>
        /\ RangeContains(hold_trackers[i].range, matching[Len(matching)].value)

AllKeysHeldAfter(events) ==
    \A i \in 1..Len(hold_trackers) : KeyHeldAfter(i, events)

\* The events at which an interval with all hold keys held begins.
HoldEpisodes(events) ==
    {n \in 1..Len(events) :
        /\ AllKeysHeldAfter(SubSeq(events, 1, n))
        /\ ~AllKeysHeldAfter(SubSeq(events, 1, n - 1))}

\* C4: the effects run exactly once per maximal interval in which all hold
\* keys are held, at the event that begins it.
C4_AllOrNothing ==
    [][effects_run' - effects_run =
         IF Len(hook_events') \in HoldEpisodes(hook_events') THEN 1 ELSE 0]_vars

\* C5: after Hook::apply, every tracker whose key matches the event holds
\* "the event's value is in my range".
C5_EveryTrackerFed ==
    hook_events # <<>> =>
        \A i \in 1..Len(hold_trackers) :
            KeyMatches(hold_trackers[i].key, hook_events[Len(hook_events)]) =>
                TrackerIsDown(hold_trackers[i]) =
                    RangeContains(hold_trackers[i].range,
                                  hook_events[Len(hook_events)].value)

(***************************************************************************)
(* Properties of Withhold, checked under Spec.                             *)
(***************************************************************************)
\* The arrival numbers of the presses parked in a channel_state list.
ParkedSeqs(states) ==
    {states[k].withheld_event.seq :
        k \in {j \in 1..Len(states) : states[j].state = "Withheld"}}

\* The last call was Withhold::apply on an event with the flag set that
\* matches a withhold key.
InspectedKeyEvent ==
    /\ call.op = "apply"
    /\ call.event.withholdable
    /\ WithholdKeysMatch(keys, call.event)

\* This step is Withhold::apply on an event with the flag set that matches a
\* withhold key (read in an action: the event is call'.event).
InspectsKeyEvent ==
    /\ count' = count + 1
    /\ call'.event.withholdable
    /\ WithholdKeysMatch(keys, call'.event)

\* C1 as stated: once the first release after a press on a channel has been
\* inspected and the press is not parked, either the press was emitted and the
\* release passed, or the press was never emitted and the release was
\* absorbed; and a release is never emitted while its channel is Residual.
C1_Original ==
    /\ \A channel \in Channels :
          LET pair == pairing[channel]
          IN  (/\ pair.press # 0
               /\ pair.release # "none"
               /\ pair.press \notin ParkedSeqs(channel_state))
              => \/ pair.press \in emitted /\ pair.release = "emitted"
                 \/ pair.press \notin emitted /\ pair.release = "absorbed"
    /\ (InspectedKeyEvent /\ call.event.value = 0 /\ call.current = "Residual")
          => call.event.seq \notin Seqs(events_out)

\* C1, amended: a press ends in at most one of "emitted" and "claimed, with
\* the release absorbed": no claimed press is ever emitted; when the first
\* release after a press is absorbed, the press parked for the channel was
\* claimed and never emitted, and the last press was not emitted; a release is
\* never emitted while its channel is Residual when it is inspected.
C1_Pairing ==
    /\ emitted \cap claimed = {}
    /\ \A channel \in Channels :
          pairing[channel].release = "absorbed" =>
            /\ pairing[channel].parked \in claimed
            /\ pairing[channel].parked \notin emitted
            /\ pairing[channel].press \notin emitted
    /\ (InspectedKeyEvent /\ call.event.value = 0 /\ call.current = "Residual")
          => call.event.seq \notin Seqs(events_out)

\* Both outcomes have happened: on one channel a press was emitted and its
\* release passed, on another a press was claimed and its release absorbed.
C1_Witness ==
    \E one, other \in Channels :
        /\ pairing[one].parked \in emitted
        /\ pairing[one].release = "emitted"
        /\ pairing[other].parked \in claimed
        /\ pairing[other].release = "absorbed"

C3_OwnEventLast ==
    (call.op = "apply" /\ call.event.withholdable) =>
        \A k \in 1..Len(events_out) :
            /\ events_out[k].seq = call.event.seq => k = Len(events_out)
            /\ k < Len(events_out) => events_out[k].seq < call.event.seq

\* A release was inspected and pushed after a press the same call released.
C3_Witness ==
    /\ call.op = "apply"
    /\ call.event.withholdable
    /\ Len(events_out) >= 2
    /\ events_out[Len(events_out)] = UnsetWithholdable(call.event)
    /\ events_out[1].value = 1

\* C8: apply on an event whose flag is unset pushes exactly that event and
\* leaves the triggers, their timers and every channel state alone.
C8_PassThrough ==
    [][(count' = count + 1 /\ ~call'.event.withholdable) =>
          /\ events_out' = <<call'.event>>
          /\ triggers' = triggers
          /\ channel_state' = channel_state
          /\ loopback' = loopback]_vars

\* A release with the flag unset passed while its channel was Residual and a
\* press was parked on another channel.
C8_Witness ==
    /\ call.op = "apply"
    /\ ~call.event.withholdable
    /\ call.event.value = 0
    /\ CurrentChannelState(channel_state, Channel(call.event)) = "Residual"
    /\ ParkedSeqs(channel_state) # {}

\* The press the channel of the inspected press holds parked once the event's
\* own branch has run: the one already parked, else the event itself.
ParkedPress(states, event) ==
    IF CurrentChannelState(states, Channel(event)) = "Withheld"
    THEN states[FindChannel(states, Channel(event))].withheld_event
    ELSE UnsetWithholdable(event)

\* C9: an inspected press is not the step's final event.  The channel then
\* holds the press parked before, or this one if there was none or the state
\* was Residual: at the end of the call that press is still Withheld, or was
\* claimed, or was released by the scan.  A duplicate press is neither parked
\* nor emitted.
C9_Press ==
    [][(InspectsKeyEvent /\ call'.event.value = 1) =>
          LET channel == Channel(call'.event)
              press   == ParkedPress(channel_state, call'.event)
              after   == CurrentChannelState(channel_state', channel)
          IN  /\ call'.final_event = <<>>
              /\ \/ /\ after = "Withheld"
                    /\ channel_state'[FindChannel(channel_state', channel)]
                          .withheld_event = press
                    /\ press.seq \notin Seqs(events_out') \cup claimed'
                 \/ /\ after = "Residual"
                    /\ press.seq \in claimed'
                    /\ press.seq \notin Seqs(events_out')
                 \/ /\ after = "None"
                    /\ press.seq \in Seqs(events_out')
                    /\ press.seq \notin claimed'
              /\ CurrentChannelState(channel_state, channel) = "Withheld" =>
                    /\ call'.event.seq \notin Seqs(events_out')
                    /\ call'.event.seq \notin ParkedSeqs(channel_state')
      ]_vars

\* A press overwrote a Residual state and is parked.
C9_Witness ==
    /\ InspectedKeyEvent
    /\ call.event.value = 1
    /\ call.current = "Residual"
    /\ call.event.seq \in ParkedSeqs(channel_state)

\* A duplicate press arrived while the channel was Withheld.
C9_WitnessDuplicate ==
    /\ InspectedKeyEvent
    /\ call.event.value = 1
    /\ call.current = "Withheld"
    /\ ParkedSeqs(channel_state) # {}

\* C10: an inspected release is pushed as the last event of the step if its
\* channel has no state or is Withheld; if the channel is Residual it is not
\* pushed and the channel has no state afterwards.
C10_Release ==
    [][(InspectsKeyEvent /\ call'.event.value = 0) =>
          LET channel == Channel(call'.event)
              before  == CurrentChannelState(channel_state, channel)
          IN  /\ before \in {"None", "Withheld"} =>
                    /\ events_out' # <<>>
                    /\ events_out'[Len(events_out')] =
                          UnsetWithholdable(call'.event)
              /\ before = "Residual" =>
                    /\ call'.event.seq \notin Seqs(events_out')
                    /\ CurrentChannelState(channel_state', channel) = "None"
      ]_vars

\* A release with no press before it was passed straight through.
C10_Witness ==
    /\ InspectedKeyEvent
    /\ call.event.value = 0
    /\ call.current = "None"
    /\ pairing[Channel(call.event)].press = 0
    /\ events_out = <<UnsetWithholdable(call.event)>>

\* What the steps after the event's own branch (claim, release scan) can make
\* of a channel state: an absent or Residual state stays; a Withheld state
\* stays, or is claimed, or its press is released.
OnlyClaimedOrReleased(channel) ==
    LET before == CurrentChannelState(channel_state, channel)
        after  == CurrentChannelState(channel_state', channel)
        press  == channel_state[FindChannel(channel_state, channel)].withheld_event
    IN  /\ before = "None" => after = "None"
        /\ before = "Residual" => after = "Residual"
        /\ before = "Withheld" =>
              \/ /\ after = "Withheld"
                 /\ channel_state'[FindChannel(channel_state', channel)]
                       .withheld_event = press
                 /\ press.seq \notin Seqs(events_out') \cup claimed'
              \/ /\ after = "Residual"
                 /\ press.seq \in claimed'
                 /\ press.seq \notin Seqs(events_out')
              \/ /\ after = "None"
                 /\ press.seq \in Seqs(events_out')
                 /\ press.seq \notin claimed'

\* C11: an inspected event that matches a withhold key with a value other than
\* 0 and 1 is neither pushed nor parked, and its own branch leaves the state
\* of its channel alone; no such event is ever in events_out unless it was
\* passed with its flag unset; an inspected event that matches no withhold
\* key is pushed as the last event of its step.
C11_RepeatDropped ==
    [][/\ (InspectsKeyEvent /\ call'.event.value \notin {0, 1}) =>
            /\ call'.event.seq \notin Seqs(events_out')
            /\ call'.event.seq \notin ParkedSeqs(channel_state')
            /\ OnlyClaimedOrReleased(<<call'.event.code, call'.event.domain>>)
       /\ \A k \in 1..Len(events_out') :
            (/\ WithholdKeysMatch(keys, events_out'[k])
             /\ events_out'[k].value \notin {0, 1})
            => /\ events_out'[k].seq = call'.event.seq
               /\ ~call'.event.withholdable
       /\ (/\ count' = count + 1
           /\ call'.event.withholdable
           /\ ~WithholdKeysMatch(keys, call'.event))
          => /\ events_out' # <<>>
             /\ events_out'[Len(events_out')] = UnsetWithholdable(call'.event)
      ]_vars

\* A repeat of a key whose press is parked was inspected: the press is still
\* parked and nothing was pushed.
C11_Witness ==
    /\ InspectedKeyEvent
    /\ call.event.value = 2
    /\ call.current = "Withheld"
    /\ CurrentChannelState(channel_state, Channel(call.event)) = "Withheld"
    /\ events_out = <<>>

\* C12: after a single press that is parked, with no further event, a wakeup
\* pushes that press, alone, exactly if a trigger reports its window expired,
\* and removes it; before that wakeup the press has not been pushed, and once
\* it is no longer parked no wakeup pushes anything.
C12_TimerRelease ==
    [][(count = 1 /\ count' = 1) =>
          IF 1 \in ParkedSeqs(channel_state)
          THEN /\ 1 \notin emitted
               /\ call'.expired =>
                     /\ Len(events_out') = 1
                     /\ events_out'[1] = UnsetWithholdable(call.event)
                     /\ events_out'[1].value = 1
                     /\ channel_state' = <<>>
               /\ ~call'.expired =>
                     /\ events_out' = <<>>
                     /\ channel_state' = channel_state
          ELSE events_out' = <<>>
      ]_vars

\* The only event was a press of C; the wakeup of the timer released it.
C12_Witness ==
    /\ count = 1
    /\ call.op = "wakeup"
    /\ call.expired
    /\ Len(events_out) = 1
    /\ events_out[1].code = "C"
    /\ events_out[1].value = 1
    /\ emitted = {1}
    /\ claimed = {}
    /\ channel_state = <<>>

\* The triggers that report an active tracker for a channel.
HoldingTriggers(channel) ==
    {i \in 1..Len(triggers) :
        TriggerHasActiveTrackerMatchingChannel(triggers[i], channel)}

\* The triggers that report an active tracker for a channel after the step.
HoldingTriggersAfter(channel) ==
    {i \in 1..Len(triggers') :
        TriggerHasActiveTrackerMatchingChannel(triggers'[i], channel)}

\* The press with arrival number seq is parked.
Parked(seq) == seq \in ParkedSeqs(channel_state)

\* The press with arrival number seq is parked and every trigger that holds
\* its channel has a timer armed on the loopback.
ParkedOnTimers(seq) ==
    \E k \in 1..Len(channel_state) :
        /\ channel_state[k].state = "Withheld"
        /\ channel_state[k].withheld_event.seq = seq
        /\ \A i \in HoldingTriggers(channel_state[k].channel) :
              triggers[i].token \in loopback

\* A parked press leaves the Withheld state in one of three ways only: an
\* apply after which no trigger holds its channel pushes it; an apply in
\* which a trigger activated turns its state Residual; a wakeup in which a
\* trigger expired pushes it.
ThreeCauses ==
    \A k \in 1..Len(channel_state) :
        LET entry == channel_state[k]
            press == entry.withheld_event.seq
        IN  (entry.state = "Withheld" /\ press \notin ParkedSeqs(channel_state'))
            => \/ /\ count' = count + 1
                  /\ press \in Seqs(events_out')
                  /\ press \notin claimed'
                  /\ CurrentChannelState(channel_state', entry.channel) = "None"
                  /\ \A i \in 1..Len(triggers') :
                        ~TriggerHasActiveTrackerMatchingChannel(triggers'[i],
                                                                entry.channel)
               \/ /\ count' = count + 1
                  /\ call'.activated # {}
                  /\ press \in claimed'
                  /\ press \notin Seqs(events_out')
                  /\ CurrentChannelState(channel_state', entry.channel) = "Residual"
               \/ /\ count' = count
                  /\ call'.op = "wakeup"
                  /\ call'.expired
                  /\ press \in Seqs(events_out')
                  /\ press \notin claimed'
                  /\ CurrentChannelState(channel_state', entry.channel) = "None"

\* C13 as stated: with every armed wakeup delivered, every parked press
\* eventually leaves the Withheld state.
C13_Original ==
    \A seq \in 1..MaxEvents : Parked(seq) ~> ~Parked(seq)

\* C13: a parked press leaves the Withheld state by one of the three causes
\* only, and, with every armed wakeup delivered, a parked press eventually
\* leaves it if every trigger holding its channel has a timer armed.
C13_Leaves ==
    /\ [][ThreeCauses]_vars
    /\ \A seq \in 1..MaxEvents : ParkedOnTimers(seq) ~> ~Parked(seq)

\* A press was parked on timers and the wakeup released it while another
\* event had arrived in between.
C13_Witness ==
    /\ call.op = "wakeup"
    /\ call.expired
    /\ count >= 2
    /\ \E k \in 1..Len(events_out) :
          /\ events_out[k].value = 1
          /\ events_out[k].seq = 1

\* C14: the branch an inspected event takes creates, overwrites or removes
\* the entry of the event's own (code, domain) channel only: every other
\* channel's state changes through the claim loop or the release scan alone;
\* a release is absorbed only if its own channel was Residual; a press whose
\* own channel has no parked press is parked under its own channel, whatever
\* the other domain's state; every parked press is stored under its channel.
C14_DomainIsolation ==
    [][(count' = count + 1 /\ call'.event.withholdable) =>
          LET event == call'.event
              own   == <<event.code, event.domain>>
              match == WithholdKeysMatch(keys, event)
          IN  /\ \A channel \in Channels \ {own} : OnlyClaimedOrReleased(channel)
              /\ (match /\ event.value = 0 /\ event.seq \notin Seqs(events_out'))
                 => CurrentChannelState(channel_state, own) = "Residual"
              /\ (/\ match
                  /\ event.value = 1
                  /\ CurrentChannelState(channel_state, own) # "Withheld")
                 => \/ /\ CurrentChannelState(channel_state', own) = "Withheld"
                       /\ channel_state'[FindChannel(channel_state', own)]
                             .withheld_event = UnsetWithholdable(event)
                    \/ /\ CurrentChannelState(channel_state', own) = "Residual"
                       /\ event.seq \in claimed'
                    \/ /\ CurrentChannelState(channel_state', own) = "None"
                       /\ event.seq \in Seqs(events_out')
              /\ \A k \in 1..Len(channel_state') :
                    channel_state'[k].state = "Withheld"
                    => channel_state'[k].channel =
                          <<channel_state'[k].withheld_event.code,
                            channel_state'[k].withheld_event.domain>>
      ]_vars

\* The press of C on d1 was claimed; the release of C on d2 was inspected
\* and pushed, and the state of (C, d1) is still Residual.
C14_Witness ==
    /\ InspectedKeyEvent
    /\ call.event.code = "C"
    /\ call.event.domain = "d2"
    /\ call.event.value = 0
    /\ events_out # <<>>
    /\ events_out[Len(events_out)].seq = call.event.seq
    /\ CurrentChannelState(channel_state, <<"C", "d1">>) = "Residual"
    /\ CurrentChannelState(channel_state, <<"C", "d2">>) = "None"

\* The press of C on d2 was parked while the state of (C, d1) is Residual.
C14_WitnessPress ==
    /\ InspectedKeyEvent
    /\ call.event.domain = "d2"
    /\ call.event.value = 1
    /\ CurrentChannelState(channel_state, <<"C", "d1">>) = "Residual"
    /\ CurrentChannelState(channel_state, <<"C", "d2">>) = "Withheld"

\* Every channel in Withheld state is held: some trigger reports an active
\* tracker for it.
EveryParkedHeld ==
    \A k \in 1..Len(channel_state) :
        channel_state[k].state = "Withheld"
        => HoldingTriggers(channel_state[k].channel) # {}

\* C15: between operations every channel in Withheld state has a trigger
\* reporting an active tracker for it; a parked press that no trigger holds
\* after a call was pushed by that call and its entry deleted (or its state
\* was claimed by that call).
C15_ReleaseScan ==
    /\ []EveryParkedHeld
    /\ [][\A k \in 1..Len(channel_state) :
            LET entry == channel_state[k]
                press == entry.withheld_event.seq
            IN  (entry.state = "Withheld" /\ HoldingTriggersAfter(entry.channel) = {})
                => \/ /\ press \in Seqs(events_out')
                      /\ press \in emitted'
                      /\ CurrentChannelState(channel_state', entry.channel) = "None"
                   \/ /\ press \in claimed'
                      /\ CurrentChannelState(channel_state', entry.channel)
                            = "Residual"
         ]_vars

\* One channel is still parked and held while the last call, an apply, pushed
\* the press of another channel that no trigger holds any more.
C15_Witness ==
    /\ call.op = "apply"
    /\ ParkedSeqs(channel_state) # {}
    /\ EveryParkedHeld
    /\ \E k \in 1..Len(events_out) :
          /\ events_out[k].seq < call.event.seq
          /\ HoldingTriggers(<<events_out[k].code, events_out[k].domain>>) = {}

\* The Residual entries of a channel_state list, in order.
ResidualEntries(states) ==
    LET IsResidual(entry) == entry.state = "Residual"
    IN  SelectSeq(states, IsResidual)

\* C16: a wakeup in which no trigger expired pushes nothing and leaves
\* channel_state as it was; a wakeup in which one expired only deletes
\* Withheld entries and pushes their presses: no entry is added or changed,
\* every Residual entry stays, nothing is claimed, and every event pushed is
\* the press of a deleted Withheld entry.
C16_WakeupFrame ==
    [][(count' = count /\ loopback' # loopback) =>
          /\ call'.op = "wakeup"
          /\ ~call'.expired =>
                /\ events_out' = <<>>
                /\ channel_state' = channel_state
                /\ emitted' = emitted
          /\ ResidualEntries(channel_state') = ResidualEntries(channel_state)
          /\ claimed' = claimed
          /\ \A k \in 1..Len(channel_state') :
                \E j \in 1..Len(channel_state) : channel_state[j] = channel_state'[k]
          /\ \A k \in 1..Len(events_out') :
                \E j \in 1..Len(channel_state) :
                    /\ channel_state[j].state = "Withheld"
                    /\ channel_state[j].withheld_event = events_out'[k]
                    /\ CurrentChannelState(channel_state', channel_state[j].channel)
                          = "None"
          /\ ParkedSeqs(channel_state) \ ParkedSeqs(channel_state')
                = Seqs(events_out')
      ]_vars

\* A wakeup in which a trigger expired pushed a parked press and left a
\* Residual entry in place.
C16_Witness ==
    /\ call.op = "wakeup"
    /\ call.expired
    /\ events_out # <<>>
    /\ ResidualEntries(channel_state) # <<>>

\* A wakeup in which no trigger expired, with a press parked.
C16_WitnessStale ==
    /\ call.op = "wakeup"
    /\ ~call.expired
    /\ events_out = <<>>
    /\ ParkedSeqs(channel_state) # {}

\* C17: the events pushed on one channel keep their arrival order; in
\* particular no call pushes the parked press of a channel whose later
\* release an earlier call has already pushed.
C17_ChannelOrder ==
    [][\A k \in 1..Len(events_out') :
          LET event   == events_out'[k]
              channel == <<event.code, event.domain>>
          IN  (/\ event.value = 1
               /\ channel \in Channels
               /\ pairing[channel].parked = event.seq)
              => pairing[channel].release # "emitted"
      ]_vars

\* The events parked in a channel_state list.
ParkedEvents(states) ==
    {states[k].withheld_event :
        k \in {j \in 1..Len(states) : states[j].state = "Withheld"}}

\* C18: every event a call pushes is the event passed to that call or a
\* press parked by an earlier call, equal to the event that was passed in but
\* for the flag; every event parked is the event passed to the call; no call
\* pushes an event twice or an event an earlier call pushed; the number of
\* events pushed never exceeds the number of events received.
C18_NoFabrication ==
    [][(count' # count \/ loopback' # loopback) =>
          /\ \A k \in 1..Len(events_out') :
                \/ /\ count' = count + 1
                   /\ events_out'[k] = [call'.event EXCEPT !.withholdable = FALSE]
                \/ events_out'[k] \in ParkedEvents(channel_state)
          /\ \A event \in ParkedEvents(channel_state') :
                \/ /\ count' = count + 1
                   /\ event = [call'.event EXCEPT !.withholdable = FALSE]
                \/ event \in ParkedEvents(channel_state)
          /\ Cardinality(Seqs(events_out')) = Len(events_out')
          /\ Seqs(events_out') \cap emitted = {}
          /\ emitted' = emitted \cup Seqs(events_out')
          /\ emitted' \subseteq 1..count'
          /\ Cardinality(emitted') <= count'
      ]_vars

\* A wakeup pushed a press parked two or more events ago, and fewer events
\* have been pushed than received.
C18_Witness ==
    /\ call.op = "wakeup"
    /\ events_out # <<>>
    /\ events_out[1].seq < count
    /\ Cardinality(emitted) < count

\* C19: channel_state holds at most one entry per channel.
C19_Unique ==
    \A j, k \in 1..Len(channel_state) :
        channel_state[j].channel = channel_state[k].channel => j = k

\* A press was parked over a Residual state while another channel has an
\* entry of its own.
C19_Witness ==
    /\ InspectedKeyEvent
    /\ call.event.value = 1
    /\ call.current = "Residual"
    /\ Len(channel_state) >= 2

\* C20: every event a Withhold pushes or parks has its Withholdable flag
\* unset, so that a later Withhold takes the pass-through branch for it.
C20_DecideOnce ==
    /\ \A k \in 1..Len(events_out) : ~events_out[k].withholdable
    /\ \A event \in ParkedEvents(channel_state) : ~event.withholdable

\* An inspecting call pushed a released press and then its own event.
C20_Witness ==
    /\ call.op = "apply"
    /\ call.event.withholdable
    /\ Len(events_out) >= 2
    /\ events_out[Len(events_out)].seq = call.event.seq
    /\ events_out[1].value = 1

(***************************************************************************)
(* Specifications.  Each starts the component it exercises in the state    *)
(* its constructor leaves and keeps the other components unused.           *)
(***************************************************************************)
NoTracker ==
    /\ tracker = TrackerNew(Key("none", "none"))
    /\ fed = <<>>
    /\ results = <<>>
    /\ probed = [op |-> "new", is_down |-> FALSE]

NoHook ==
    /\ hold_trackers = <<>>
    /\ effects_run = 0
    /\ hook_events = <<>>

NoWithhold ==
    /\ keys = <<>>
    /\ triggers = <<>>
    /\ channel_state = <<>>
    /\ events_out = <<>>
    /\ loopback = {}
    /\ call = [op |-> "new", event |-> NoEvent, current |-> "None",
               final_event |-> <<>>, activated |-> {}, expired |-> FALSE]
    /\ count = 0
    /\ emitted = {}
    /\ claimed = {}
    /\ pairing = [channel \in Channels |-> NoPairing]

TrackerInit == InitTracker /\ NoHook /\ NoWithhold

SpecTracker == TrackerInit /\ [][NextTracker]_vars

HookInit == NoTracker /\ InitHook /\ NoWithhold

Init == NoTracker /\ NoHook /\ InitWithhold

Spec == Init /\ [][Next]_vars

SpecHook == HookInit /\ [][NextHook]_vars

\* The loopback delivers every armed timer: a wakeup that stays possible is
\* eventually made.
SpecFair ==
    Init /\ [][Next]_vars /\ WF_vars(\E token \in loopback : WithholdWakeup(token))

====
